---- MODULE Spec2Model ----
(***************************************************************************)
(* The credit ledger of schriftbot-backend: payment webhooks that credit   *)
(* one user document in Firestore.  One account (one uid) is modelled; the *)
(* deliveries for it are the processes.  Every await of the code is a      *)
(* point where another delivery may run, so a handler is one action per    *)
(* stretch of code between two store round trips.                          *)
(***************************************************************************)
EXTENDS Integers, Sequences, FiniteSets, TLC

\* ------------------------------------------------------------------ bounds
NumProcs == 2        \* deliveries handled in one run (each process handles one)
MaxClock == 1        \* the clock (new Date()) takes the values 0..MaxClock
MaxTime == 3         \* Date.now() of the token spec takes the values 0..MaxTime

Procs == 1..NumProcs

\* ------------------------------------------------------------ the inputs
\* The sentinel written for an unlimited plan.
UNLIMITED == 999999

\* The grants the webhook hands to the ledger: what the product metadata of
\* the invoice's plan says.  inv_1..inv_3 are the scenario of the spec.
Grants ==
  { [invoiceId |-> "inv_1", credits |-> 20, isUnlimited |-> FALSE, plan |-> "basic"],
    [invoiceId |-> "inv_2", credits |-> 20, isUnlimited |-> FALSE, plan |-> "basic"],
    [invoiceId |-> "inv_3", credits |-> 0,  isUnlimited |-> TRUE,  plan |-> "flat"],
    [invoiceId |-> "inv_4", credits |-> 5,  isUnlimited |-> FALSE, plan |-> "mini"],
    [invoiceId |-> "inv_5", credits |-> 50, isUnlimited |-> TRUE,  plan |-> "flat"] }

InvoiceIds == { g.invoiceId : g \in Grants }
GrantOf(inv) == CHOOSE g \in Grants : g.invoiceId = inv

NoData == [invoiceId |-> "", credits |-> 0, isUnlimited |-> FALSE, plan |-> ""]

\* {} of the code: an object with no property.
EmptyObj == [k \in {} |-> 0]

\* obj.k || dflt, for a property that is a positive number, a non-empty
\* string or a non-empty list when it is there.
Prop(obj, k, dflt) == IF k \in DOMAIN obj THEN obj[k] ELSE dflt

\* ------------------------------------------------- Firestore REST encoding
str(v) == [stringValue |-> v]
\* String(v) of an integer is its decimal numeral, Number() reads it back:
\* the numeral is kept as the integer it denotes.
int(v) == [integerValue |-> v]
bool(v) == [booleanValue |-> v]
arr(v) == [arrayValue |->
             [values |-> [i \in DOMAIN v |-> [mapValue |-> [fields |-> v[i]]]]]]

RECURSIVE parseFields(_)
parseFields(fields) ==
  LET known == { k \in DOMAIN fields :
                   \E t \in {"integerValue", "stringValue", "booleanValue", "arrayValue"} :
                      t \in DOMAIN fields[k] }
      parse(v) ==
        IF "integerValue" \in DOMAIN v THEN v.integerValue
        ELSE IF "stringValue" \in DOMAIN v THEN v.stringValue
        ELSE IF "booleanValue" \in DOMAIN v THEN v.booleanValue
        ELSE IF "values" \in DOMAIN v.arrayValue
             THEN [i \in DOMAIN v.arrayValue.values |->
                     LET x == v.arrayValue.values[i]
                     IN  IF "mapValue" \in DOMAIN x
                         THEN parseFields(x.mapValue.fields) ELSE x]
             ELSE << >>
  IN  [k \in known |-> parse(fields[k])]

\* ------------------------------------------------------------------ state
VARIABLES
  doc,      \* the stored document users/{uid}: [exists, fields]
  clock,    \* what new Date() returns
  pc,       \* where each delivery is
  data,     \* the grant each delivery carries
  user,     \* what each delivery read from the store
  doc0,     \* history: the document the run started from
  applied,  \* history: the invoiceIds of the store writes, in order
            \* ("canceled" for the write of a cancellation, "past_due"
            \* for that of a failed payment)
  overlap,  \* history: some delivery read while another was between read and write
  variant,  \* which of the repository's programs is running
  event,    \* the webhook event each delivery carries
  resp,     \* what each delivery's request was answered with
  io,       \* history: provider lookups, store reads and store writes issued
  cachedToken,  \* server.ts: the module's cached access token, or NoToken
  tokenCall     \* history: how each caller's last getAccessToken call ended

vars == <<doc, clock, pc, data, user, doc0, applied, overlap, variant, event, resp, io,
          cachedToken, tokenCall>>

Absent == [exists |-> FALSE, fields |-> EmptyObj]

NoEvent == [sig |-> "none", type |-> "none", ref |-> FALSE,
            lineItem |-> FALSE, reason |-> "none"]
NoIo == [lookups |-> 0, reads |-> 0, writes |-> 0]
\* let cachedToken = null
NoToken == [token |-> [by |-> 0, at |-> 0], expiresAt |-> 0]
NoCall == [from |-> "none", token |-> NoToken.token, at |-> 0, expiresAt |-> 0,
           expiresIn |-> 0]

\* A document the client app created at sign-up, before any payment.
SignedUp == [exists |-> TRUE,
             fields |-> [credits |-> int(3), plan |-> str("free")]]

\* A document two earlier grants left behind: the older payment record was
\* rewritten with its invoiceId alone by the later grant.
Renewed ==
  [exists |-> TRUE,
   fields |-> [credits |-> int(25),
               isUnlimited |-> bool(FALSE),
               plan |-> str("mini"),
               lastPaymentStatus |-> str("active"),
               payments |-> arr(<< [invoiceId |-> str("inv_8")],
                                   [invoiceId |-> str("inv_9"),
                                    credits |-> int(5),
                                    date |-> str(0)] >>)]]

InitCommon ==
  /\ clock = 0
  /\ pc = [p \in Procs |-> "idle"]
  /\ data = [p \in Procs |-> NoData]
  /\ user = [p \in Procs |-> EmptyObj]
  /\ applied = << >>
  /\ overlap = FALSE
  /\ event = [p \in Procs |-> NoEvent]
  /\ resp = [p \in Procs |-> "none"]
  /\ io = [p \in Procs |-> NoIo]
  /\ cachedToken = NoToken
  /\ tokenCall = [p \in Procs |-> NoCall]

\* new Date() moves on between any two steps.
Tick ==
  /\ clock < MaxClock
  /\ clock' = clock + 1
  /\ UNCHANGED <<cachedToken, tokenCall, doc, pc, data, user, doc0, applied, overlap, variant, event, resp, io>>

InFlight(p) == \E q \in Procs \ {p} : pc[q] = "write"

\* ------------------------------------------------ src/server.ts: the store
\* getUser's answer for a document: null (here {}) on 404 or a document
\* without fields, else the parsed fields.
getUser(d) ==
  IF d.exists /\ DOMAIN d.fields # {} THEN parseFields(d.fields) ELSE EmptyObj

\* payments.some((p) => p.invoiceId === data.invoiceId)
SomeInvoice(payments, inv) ==
  \E i \in DOMAIN payments :
    "invoiceId" \in DOMAIN payments[i] /\ payments[i].invoiceId = inv

\* Faulty variants of newCredits: the grant replaces the balance; the
\* unlimited flag is not looked at.
newCreditsOverwrite(u, d) ==
  IF d.isUnlimited THEN UNLIMITED ELSE d.credits
newCreditsAlwaysAdd(u, d) == Prop(u, "credits", 0) + d.credits
newCredits(u, d) ==
  IF d.isUnlimited THEN UNLIMITED ELSE Prop(u, "credits", 0) + d.credits

\* Faulty variant of patchFields: an account once unlimited stays unlimited.
patchFieldsSticky(u, d, now) ==
  LET payments == Prop(u, "payments", << >>)
  IN  [credits |-> int(newCredits(u, d)),
       isUnlimited |-> bool(Prop(u, "isUnlimited", FALSE) \/ d.isUnlimited),
       plan |-> str(d.plan),
       lastPaymentStatus |-> str("active"),
       payments |-> arr([i \in DOMAIN payments |->
                           [invoiceId |-> str(payments[i].invoiceId)]]
                        \o << [invoiceId |-> str(d.invoiceId),
                               credits |-> int(d.credits),
                               date |-> str(now)] >>)]
\* The fields applyCredits hands to patchUser.
patchFields(u, d, now) ==
  LET payments == Prop(u, "payments", << >>)
  IN  [credits |-> int(newCredits(u, d)),
       isUnlimited |-> bool(d.isUnlimited),
       plan |-> str(d.plan),
       lastPaymentStatus |-> str("active"),
       payments |-> arr([i \in DOMAIN payments |->
                           [invoiceId |-> str(payments[i].invoiceId)]]
                        \o << [invoiceId |-> str(d.invoiceId),
                               credits |-> int(d.credits),
                               date |-> str(now)] >>)]

\* Faulty variant of patchUser: the new payment record is appended to the stored
\* list instead of the list being replaced.
patchUserAppend(d, fields) ==
  LET old == IF d.exists /\ "payments" \in DOMAIN d.fields
             THEN d.fields.payments.arrayValue.values ELSE << >>
      new == fields.payments.arrayValue.values
  IN  [exists |-> TRUE,
       fields |-> [fields EXCEPT
                     !.payments = [arrayValue |->
                                     [values |-> Append(old, new[Len(new)])]]]]
\* PATCH without an update mask replaces the whole document.
patchUser(d, fields) == [exists |-> TRUE, fields |-> fields]


\* ------------------------------- src/server.ts: from the event to the grant
\* A property that may be missing (undefined, null): << >>, else <<value>>.
Missing == << >>
Some(x) == <<x>>

\* NaN, as a value no number of the model takes.
NaN == -1

\* Number(s) for the strings product metadata holds here.
Number(s) ==
  IF s = "20" THEN 20
  ELSE IF s = "5" THEN 5
  ELSE IF s = "0" \/ s = "" THEN 0
  ELSE NaN

\* x || dflt for a string property: missing and "" are falsy.
OrElse(x, dflt) == IF x = Missing \/ x = Some("") THEN dflt ELSE x[1]

\* Number(product.metadata?.credits || 0)
metaCredits(product) ==
  IF product.credits = Missing \/ product.credits = Some("")
  THEN 0 ELSE Number(product.credits[1])

\* Faulty variant of metaIsUnlimited: any non-empty value counts.
metaIsUnlimitedTruthy(product) ==
  product.isUnlimited # Missing /\ product.isUnlimited # Some("")
\* product.metadata?.isUnlimited === "true"
metaIsUnlimited(product) == product.isUnlimited = Some("true")

\* product.metadata?.planName || product.name || "Unknown"
metaPlan(product) ==
  OrElse(product.planName, OrElse(Some(product.name), "Unknown"))

\* Faulty variant of grantInvoiceId: session.invoice with no fallback.
grantInvoiceIdNoFallback(e) ==
  IF e.type = "checkout.session.completed"
  THEN IF e.invoice = Missing THEN "null" ELSE e.invoice[1]
  ELSE e.id
\* (session.invoice as string) || session.id for a checkout, invoice.id for
\* an invoice.
grantInvoiceId(e) ==
  IF e.type = "checkout.session.completed"
  THEN OrElse(e.invoice, e.id)
  ELSE e.id

\* The data the handler passes to applyCredits.
grantData(e) ==
  [invoiceId |-> grantInvoiceId(e),
   credits |-> metaCredits(e.product),
   isUnlimited |-> metaIsUnlimited(e.product),
   plan |-> metaPlan(e.product)]

\* --------------------------------------- src/server.ts: the webhook route
\* A webhook request: whether the stripe-signature header is there and
\* verifies, the event's type, whether the reference to the account is there
\* (client_reference_id of the session, metadata.uid of the subscription),
\* whether the session has a line item, the invoice's billing_reason.
EvCheckout ==
  [sig |-> "valid", type |-> "checkout.session.completed", ref |-> TRUE,
   lineItem |-> TRUE, reason |-> "none"]
EvRenewal ==
  [sig |-> "valid", type |-> "invoice.paid", ref |-> TRUE,
   lineItem |-> TRUE, reason |-> "subscription_cycle"]
EvNoSignature == [EvCheckout EXCEPT !.sig = "missing"]
EvBadSignature == [EvRenewal EXCEPT !.sig = "invalid"]
EvCheckoutNoRef == [EvCheckout EXCEPT !.ref = FALSE]
EvCheckoutNoItem == [EvCheckout EXCEPT !.lineItem = FALSE]
EvRenewalNoRef == [EvRenewal EXCEPT !.ref = FALSE]
EvFirstInvoice == [EvRenewal EXCEPT !.reason = "subscription_create"]
EvDeleted == [EvRenewal EXCEPT !.type = "customer.subscription.deleted",
                               !.reason = "none"]

Events == {EvCheckout, EvRenewal, EvNoSignature, EvBadSignature,
           EvCheckoutNoRef, EvCheckoutNoItem, EvRenewalNoRef, EvFirstInvoice,
           EvDeleted}

\* The event a grant comes from: the invoices of a purchase from a checkout,
\* those of a renewal from invoice.paid.
EventOf(g) == IF g.invoiceId \in {"inv_1", "inv_3"} THEN EvCheckout ELSE EvRenewal

\* What arrives: an event and what the product lookup would say of it.
Deliveries ==
  { [event |-> EventOf(g), grant |-> g] : g \in Grants }
  \cup { [event |-> e, grant |-> GrantOf("inv_1")] :
           e \in Events \ {EvCheckout, EvRenewal} }

\* The stripe-signature header is there and constructEvent accepts it.
\* Faulty variant: the header's presence alone is looked at.
constructEventHeaderOnly(e) == e.sig # "missing"
constructEvent(e) == e.sig = "valid"

\* Faulty variant of webhookRoute: the reference to the account is not looked at.
webhookRouteNoRefCheck(e) ==
  IF ~constructEvent(e) THEN "reject"
  ELSE IF e.type = "checkout.session.completed"
       THEN IF ~e.lineItem THEN "ignore" ELSE "grant"
  ELSE IF e.type = "invoice.paid"
       THEN IF e.reason # "subscription_cycle" THEN "ignore" ELSE "grant"
  ELSE "ignore"
\* Faulty variant of webhookRoute: the billing_reason is not looked at.
webhookRouteAnyReason(e) ==
  IF ~constructEvent(e) THEN "reject"
  ELSE IF e.type = "checkout.session.completed"
       THEN IF ~e.ref THEN "ignore"
            ELSE IF ~e.lineItem THEN "ignore" ELSE "grant"
  ELSE IF e.type = "invoice.paid"
       THEN IF ~e.ref THEN "ignore" ELSE "grant"
  ELSE "ignore"
\* Where the handler takes an event when no lookup fails: answered 400,
\* answered at once, or handed to applyCredits.
webhookRoute(e) ==
  IF ~constructEvent(e) THEN "reject"
  ELSE IF e.type = "checkout.session.completed"
       THEN IF ~e.ref THEN "ignore"
            ELSE IF ~e.lineItem THEN "ignore" ELSE "grant"
  ELSE IF e.type = "invoice.paid"
       THEN IF e.reason # "subscription_cycle" THEN "ignore"
            ELSE IF ~e.ref THEN "ignore" ELSE "grant"
  ELSE "ignore"

\* The provider lookups the handler makes for an event when none fails:
\* sessions.retrieve; subscriptions.retrieve and then products.retrieve.
lookupsBefore(e) ==
  IF ~constructEvent(e) THEN 0
  ELSE IF e.type = "checkout.session.completed"
       THEN IF e.ref THEN 1 ELSE 0
  ELSE IF e.type = "invoice.paid" /\ e.reason = "subscription_cycle"
       THEN IF e.ref THEN 2 ELSE 1
  ELSE 0

\* Faulty variant of webhookResponse: the catch block logs and the handler
\* goes on to its last line.
webhookResponseSwallow(outcome) ==
  IF outcome = "rejected" THEN "400" ELSE "received"
\* The answer of the handler by how the processing ended.
webhookResponse(outcome) ==
  IF outcome = "rejected" THEN "400"
  ELSE IF outcome = "error" THEN "500"
  ELSE "received"

\* A missing or refused signature.
WebhookReject(p, e) ==
  /\ pc[p] = "idle"
  /\ webhookRoute(e) = "reject"
  /\ pc' = [pc EXCEPT ![p] = "rejected"]
  /\ event' = [event EXCEPT ![p] = e]
  /\ resp' = [resp EXCEPT ![p] = webhookResponse("rejected")]
  /\ UNCHANGED <<cachedToken, tokenCall, doc, clock, data, user, doc0, applied, overlap, variant, io>>

\* A verified event the handler answers without calling applyCredits.
WebhookIgnore(p, e) ==
  /\ pc[p] = "idle"
  /\ webhookRoute(e) = "ignore"
  /\ pc' = [pc EXCEPT ![p] = "ignored"]
  /\ event' = [event EXCEPT ![p] = e]
  /\ resp' = [resp EXCEPT ![p] = webhookResponse("ignored")]
  /\ io' = [io EXCEPT ![p].lookups = lookupsBefore(e)]
  /\ UNCHANGED <<cachedToken, tokenCall, doc, clock, data, user, doc0, applied, overlap, variant>>

\* One of the provider lookups throws.
LookupFails(p, e) ==
  /\ pc[p] = "idle"
  /\ webhookRoute(e) # "reject"
  /\ \E n \in 1..lookupsBefore(e) : io' = [io EXCEPT ![p].lookups = n]
  /\ pc' = [pc EXCEPT ![p] = "error"]
  /\ event' = [event EXCEPT ![p] = e]
  /\ resp' = [resp EXCEPT ![p] = webhookResponse("error")]
  /\ UNCHANGED <<cachedToken, tokenCall, doc, clock, data, user, doc0, applied, overlap, variant>>

\* The handler of a grant event up to applyCredits's first return: the
\* lookups, getUser, the duplicate check.
\* Faulty variant of applyCreditsCheck: the list is read from a property the
\* document does not have.
applyCreditsCheckTypo(u, d) == SomeInvoice(Prop(u, "payment", << >>), d.invoiceId)
applyCreditsCheck(u, d) == SomeInvoice(Prop(u, "payments", << >>), d.invoiceId)

\* Faulty variant of awaitApplyCredits: applyCredits is called without await,
\* the handler goes on to its last line.
awaitApplyCreditsNot(r, found) == webhookResponse("applied")
\* await applyCredits(...): the handler has its answer when applyCredits
\* returned at the duplicate check, and none yet while the write is pending.
awaitApplyCredits(r, found) ==
  IF found THEN webhookResponse("duplicate") ELSE r

ApplyCreditsRead(p, e, g) ==
  /\ pc[p] = "idle"
  /\ webhookRoute(e) = "grant"
  /\ LET u == getUser(doc)
     IN  /\ data' = [data EXCEPT ![p] = g]
         /\ resp' = [resp EXCEPT
                       ![p] = awaitApplyCredits(resp[p], applyCreditsCheck(u, g))]
         /\ IF applyCreditsCheck(u, g)
            THEN /\ pc' = [pc EXCEPT ![p] = "duplicate"]
                 /\ user' = user
            ELSE /\ pc' = [pc EXCEPT ![p] = "write"]
                 /\ user' = [user EXCEPT ![p] = u]
  /\ overlap' = (overlap \/ InFlight(p))
  /\ event' = [event EXCEPT ![p] = e]
  /\ io' = [io EXCEPT ![p] = [lookups |-> lookupsBefore(e), reads |-> 1,
                              writes |-> 0]]
  /\ UNCHANGED <<cachedToken, tokenCall, doc, clock, doc0, applied, variant>>

\* getUser throws on an answer that is neither OK nor 404.
GetUserFails(p, e, g) ==
  /\ pc[p] = "idle"
  /\ webhookRoute(e) = "grant"
  /\ pc' = [pc EXCEPT ![p] = "error"]
  /\ data' = [data EXCEPT ![p] = g]
  /\ event' = [event EXCEPT ![p] = e]
  /\ resp' = [resp EXCEPT ![p] = webhookResponse("error")]
  /\ io' = [io EXCEPT ![p] = [lookups |-> lookupsBefore(e), reads |-> 1,
                              writes |-> 0]]
  /\ UNCHANGED <<cachedToken, tokenCall, doc, clock, user, doc0, applied, overlap, variant>>

\* applyCredits from the computation of newCredits to the end.  int() sends
\* String(NaN) for a NaN, which is no int64: the store refuses that body.
ApplyCreditsPatch(p) ==
  /\ pc[p] = "write"
  /\ data[p].credits # NaN
  /\ doc' = patchUser(doc, patchFields(user[p], data[p], clock))
  /\ pc' = [pc EXCEPT ![p] = "applied"]
  /\ user' = [user EXCEPT ![p] = EmptyObj]
  /\ applied' = Append(applied, data[p].invoiceId)
  /\ resp' = [resp EXCEPT ![p] = webhookResponse("applied")]
  /\ io' = [io EXCEPT ![p].writes = 1]
  /\ UNCHANGED <<cachedToken, tokenCall, clock, data, doc0, overlap, variant, event>>

\* patchUser throws when the store refuses the write.
PatchUserFails(p) ==
  /\ pc[p] = "write"
  /\ pc' = [pc EXCEPT ![p] = "error"]
  /\ user' = [user EXCEPT ![p] = EmptyObj]
  /\ resp' = [resp EXCEPT ![p] = webhookResponse("error")]
  /\ io' = [io EXCEPT ![p].writes = 1]
  /\ UNCHANGED <<cachedToken, tokenCall, doc, clock, data, doc0, applied, overlap, variant, event>>

Init ==
  /\ InitCommon
  /\ variant = "server"
  /\ doc \in {Absent, SignedUp, Renewed}
  /\ doc0 = doc

Next ==
  \/ Tick
  \/ \E p \in Procs, e \in Events : WebhookReject(p, e)
  \/ \E p \in Procs, e \in Events : WebhookIgnore(p, e)
  \/ \E p \in Procs, e \in Events : LookupFails(p, e)
  \/ \E p \in Procs, d \in Deliveries : ApplyCreditsRead(p, d.event, d.grant)
  \/ \E p \in Procs, d \in Deliveries : GetUserFails(p, d.event, d.grant)
  \/ \E p \in Procs : ApplyCreditsPatch(p)
  \/ \E p \in Procs : PatchUserFails(p)

Spec == Init /\ [][Next]_vars

\* ------------- src/server.ts: grant events with their object and product
Product(credits, isUnlimited, planName, name) ==
  [credits |-> credits, isUnlimited |-> isUnlimited,
   planName |-> planName, name |-> name]

BasicProduct == Product(Some("20"), Missing, Some("basic"), "Basic")

Products ==
  { BasicProduct,
    Product(Some("5"), Some("false"), Some("mini"), "Mini"),
    Product(Missing, Some("true"), Missing, "Flat"),
    Product(Some("abc"), Some("True"), Some("basic"), "Basic"),
    Product(Some(""), Some("1"), Missing, ""),
    Product(Some("20"), Some("yes"), Some("basic"), "Basic"),
    Product(Some("5"), Some(""), Some("mini"), "Mini") }

\* A verified checkout.session.completed with client_reference_id and line
\* item: its session id, its invoice id if any, the product of the line item.
CheckoutEvent(id, invoice, product) ==
  [sig |-> "valid", type |-> "checkout.session.completed", ref |-> TRUE,
   lineItem |-> TRUE, reason |-> "none",
   id |-> id, invoice |-> invoice, product |-> product]

\* A verified invoice.paid renewal whose subscription has a uid: its invoice
\* id, the product of its first line.
RenewalEvent(id, product) ==
  [sig |-> "valid", type |-> "invoice.paid", ref |-> TRUE,
   lineItem |-> TRUE, reason |-> "subscription_cycle",
   id |-> id, invoice |-> Missing, product |-> product]

GrantEvents ==
  { CheckoutEvent("cs_1", Missing, pr) : pr \in Products }
  \cup { CheckoutEvent(id, Missing, BasicProduct) : id \in {"cs_1", "cs_2"} }
  \cup { CheckoutEvent(id, Some("inv_1"), BasicProduct) : id \in {"cs_1", "cs_2"} }
  \cup { RenewalEvent(id, pr) : id \in {"inv_1", "inv_2"},
                                pr \in {BasicProduct,
                                        Product(Some("abc"), Some("True"),
                                                Some("basic"), "Basic")} }

InitNorm ==
  /\ InitCommon
  /\ variant = "server"
  /\ doc \in {Absent, SignedUp}
  /\ doc0 = doc

NextNorm ==
  \/ \E p \in Procs, e \in GrantEvents : ApplyCreditsRead(p, e, grantData(e))
  \/ \E p \in Procs, e \in GrantEvents : GetUserFails(p, e, grantData(e))
  \/ \E p \in Procs : ApplyCreditsPatch(p)
  \/ \E p \in Procs : PatchUserFails(p)

SpecNorm == InitNorm /\ [][NextNorm]_vars

\* ----------------------------------- src/server.ts: the cached access token
\* Time is counted in units of 60 seconds: the 60000 ms taken off the
\* lifetime are one unit.
Margin == 1

\* tokenData.expires_in, in the same units.
ExpiresIn == {1, 2, 3}

\* Faulty variant of cacheHit: a token is still served at its expiresAt.
cacheHitInclusive(c, now) == c # NoToken /\ c.expiresAt >= now
\* cachedToken && cachedToken.expiresAt > Date.now()
cacheHit(c, now) == c # NoToken /\ c.expiresAt > now

\* What is assigned to cachedToken after a token response.
newCachedToken(tok, expiresIn, now) ==
  [token |-> tok, expiresAt |-> now + expiresIn - Margin]

\* getAccessToken up to its first await: the cached token is returned, or
\* the request to the token endpoint is under way.
GetAccessTokenCheck(p) ==
  /\ pc[p] = "idle"
  /\ IF cacheHit(cachedToken, clock)
     THEN /\ tokenCall' = [tokenCall EXCEPT
                             ![p] = [from |-> "cache",
                                     token |-> cachedToken.token,
                                     at |-> clock,
                                     expiresAt |-> cachedToken.expiresAt,
                                     expiresIn |-> 0]]
          /\ pc' = pc
     ELSE /\ tokenCall' = [tokenCall EXCEPT
                             ![p] = [NoCall EXCEPT !.from = "request",
                                                   !.at = clock]]
          /\ pc' = [pc EXCEPT ![p] = "token"]
  /\ UNCHANGED <<cachedToken, doc, clock, data, user, doc0, applied, overlap, variant, event, resp, io>>

\* The token endpoint answers OK with a new token and its expires_in.
TokenResponse(p, expiresIn) ==
  /\ pc[p] = "token"
  /\ LET c == newCachedToken([by |-> p, at |-> clock], expiresIn, clock)
     IN  /\ cachedToken' = c
         /\ tokenCall' = [tokenCall EXCEPT
                            ![p] = [from |-> "endpoint", token |-> c.token,
                                    at |-> clock, expiresAt |-> c.expiresAt,
                                    expiresIn |-> expiresIn]]
  /\ pc' = [pc EXCEPT ![p] = "idle"]
  /\ UNCHANGED <<doc, clock, data, user, doc0, applied, overlap, variant, event, resp, io>>

\* The token endpoint answers with an error: getAccessToken throws.
TokenRequestFails(p) ==
  /\ pc[p] = "token"
  /\ tokenCall' = [tokenCall EXCEPT
                     ![p] = [NoCall EXCEPT !.from = "thrown", !.at = clock]]
  /\ pc' = [pc EXCEPT ![p] = "idle"]
  /\ UNCHANGED <<cachedToken, doc, clock, data, user, doc0, applied, overlap, variant, event, resp, io>>

\* Date.now() moves on, also while a request is under way.
TokenTick ==
  /\ clock < MaxTime
  /\ clock' = clock + 1
  /\ UNCHANGED <<cachedToken, tokenCall, doc, pc, data, user, doc0, applied, overlap, variant, event, resp, io>>

InitToken ==
  /\ InitCommon
  /\ variant = "server"
  /\ doc = Absent
  /\ doc0 = doc

NextToken ==
  \/ TokenTick
  \/ \E p \in Procs : GetAccessTokenCheck(p)
  \/ \E p \in Procs, n \in ExpiresIn : TokenResponse(p, n)
  \/ \E p \in Procs : TokenRequestFails(p)

SpecToken == InitToken /\ [][NextToken]_vars

\* ------------------------------------------- firebase-admin: merge writes
\* A document of the admin SDK holds plain values.  A field of a merge-set
\* is a value, FieldValue.increment(n) or FieldValue.arrayUnion(x).
val(x) == [op |-> "set", v |-> x]
increment(n) == [op |-> "increment", v |-> n]
arrayUnion(x) == [op |-> "arrayUnion", v |-> x]

\* userRef.set(update, { merge: true }): the fields of the update are
\* written, every other field is kept; increment adds to the stored number
\* (0 when there is none), arrayUnion appends the element unless an equal
\* one is in the list.
setMerge(d, update) ==
  [exists |-> TRUE,
   fields |->
     [k \in DOMAIN d.fields \cup DOMAIN update |->
        IF k \notin DOMAIN update THEN d.fields[k]
        ELSE LET u == update[k]
             IN  IF u.op = "set" THEN u.v
                 ELSE IF u.op = "increment"
                      THEN Prop(d.fields, k, 0) + u.v
                      ELSE LET old == Prop(d.fields, k, << >>)
                           IN  IF \E i \in DOMAIN old : old[i] = u.v
                               THEN old ELSE Append(old, u.v)]]

\* doc.exists ? doc.data() : {}
docData(d) == IF d.exists THEN d.fields ELSE EmptyObj

SignedUpAdmin == [exists |-> TRUE, fields |-> [credits |-> 3, plan |-> "free"]]

\* A document two earlier grants of the part_002 program left behind.
RenewedAdmin ==
  [exists |-> TRUE,
   fields |-> [credits |-> 25,
               isUnlimited |-> FALSE,
               plan |-> "mini",
               lastPaymentStatus |-> "active",
               payments |-> << [invoiceId |-> "inv_8", credits |-> 20,
                                date |-> 0, status |-> "completed"],
                               [invoiceId |-> "inv_9", credits |-> 5,
                                date |-> 0, status |-> "completed"] >>]]

\* ------------------- src/unnamed/part_002, second program: read, then set
\* doc.exists && doc.data().payments?.some((p) => p.invoiceId === data.invoiceId)
AdminCheck(d, g) ==
  d.exists /\ SomeInvoice(Prop(d.fields, "payments", << >>), g.invoiceId)

\* The update updateFirestoreUser writes.  subscriptionId, stripeCustomerId,
\* lastRenewalDate and updatedAt are left out, and isRenewal of the payment
\* record, which is the same for every delivery of one invoice.
AdminUpdate(u, g, now) ==
  [credits |-> val(IF g.isUnlimited THEN UNLIMITED
                   ELSE Prop(u, "credits", 0) + g.credits),
   isUnlimited |-> val(g.isUnlimited),
   plan |-> val(g.plan),
   lastPaymentStatus |-> val("active"),
   payments |-> arrayUnion([invoiceId |-> g.invoiceId,
                            credits |-> g.credits,
                            date |-> now,
                            status |-> "completed"])]

\* The document the grant of inv_1 leaves behind on a signed-up account.
PaidAdmin ==
  setMerge(SignedUpAdmin, AdminUpdate(docData(SignedUpAdmin), GrantOf("inv_1"), 0))

AdminGet(p, g) ==
  /\ pc[p] = "idle"
  /\ data' = [data EXCEPT ![p] = g]
  /\ IF AdminCheck(doc, g)
     THEN /\ pc' = [pc EXCEPT ![p] = "duplicate"]
          /\ user' = user
     ELSE /\ pc' = [pc EXCEPT ![p] = "write"]
          /\ user' = [user EXCEPT ![p] = docData(doc)]
  /\ overlap' = (overlap \/ InFlight(p))
  /\ UNCHANGED <<cachedToken, tokenCall, doc, clock, doc0, applied, variant, event, resp, io>>

\* null where a string is expected (session.invoice of a session that has
\* no invoice).
Null == "null"

\* The data the checkout.session.completed handler passes to
\* updateFirestoreUser: invoiceId is session.invoice as it is.
adminCheckoutData(e) ==
  [invoiceId |-> IF e.invoice = Missing THEN Null ELSE e.invoice[1],
   credits |-> Number(OrElse(e.product.credits, "0")),
   isUnlimited |-> e.product.isUnlimited = Some("true"),
   plan |-> OrElse(e.product.planName, e.product.name)]

AdminCheckouts ==
  { CheckoutEvent(id, Missing, BasicProduct) : id \in {"cs_1", "cs_2"} }

\* A checkout.session.completed with client_reference_id, up to the first
\* return of updateFirestoreUser.
AdminGetCheckout(p, e) ==
  /\ pc[p] = "idle"
  /\ LET g == adminCheckoutData(e)
     IN  /\ data' = [data EXCEPT ![p] = g]
         /\ IF AdminCheck(doc, g)
            THEN /\ pc' = [pc EXCEPT ![p] = "duplicate"]
                 /\ user' = user
            ELSE /\ pc' = [pc EXCEPT ![p] = "write"]
                 /\ user' = [user EXCEPT ![p] = docData(doc)]
  /\ overlap' = (overlap \/ InFlight(p))
  /\ event' = [event EXCEPT ![p] = e]
  /\ UNCHANGED <<cachedToken, tokenCall, doc, clock, doc0, applied, variant, resp, io>>

\* userRef.get() rejects: updateFirestoreUser throws, the webhook logs it.
AdminGetFails(p, g) ==
  /\ pc[p] = "idle"
  /\ pc' = [pc EXCEPT ![p] = "error"]
  /\ data' = [data EXCEPT ![p] = g]
  /\ UNCHANGED <<cachedToken, tokenCall, doc, clock, user, doc0, applied, overlap, variant, event, resp, io>>

AdminSet(p) ==
  /\ pc[p] = "write"
  /\ doc' = setMerge(doc, AdminUpdate(user[p], data[p], clock))
  /\ pc' = [pc EXCEPT ![p] = "applied"]
  /\ user' = [user EXCEPT ![p] = EmptyObj]
  /\ applied' = Append(applied, data[p].invoiceId)
  /\ UNCHANGED <<cachedToken, tokenCall, clock, data, doc0, overlap, variant, event, resp, io>>

AdminSetFails(p) ==
  /\ pc[p] = "write"
  /\ pc' = [pc EXCEPT ![p] = "error"]
  /\ user' = [user EXCEPT ![p] = EmptyObj]
  /\ UNCHANGED <<cachedToken, tokenCall, doc, clock, data, doc0, applied, overlap, variant, event, resp, io>>

\* Faulty variant of AdminCancelUpdate: the payments list is emptied too.
AdminCancelUpdateClearsPayments(now) ==
  [credits |-> val(0),
   isUnlimited |-> val(FALSE),
   plan |-> val("expired"),
   lastPaymentStatus |-> val("canceled"),
   subscriptionEndDate |-> val(now),
   payments |-> val(<< >>)]
\* Faulty variant of AdminCancelUpdate: lastPaymentStatus is not written.
AdminCancelUpdateNoStatus(now) ==
  [credits |-> val(0),
   isUnlimited |-> val(FALSE),
   plan |-> val("expired"),
   subscriptionEndDate |-> val(now)]
\* The update customer.subscription.deleted writes; updatedAt is left out.
AdminCancelUpdate(now) ==
  [credits |-> val(0),
   isUnlimited |-> val(FALSE),
   plan |-> val("expired"),
   lastPaymentStatus |-> val("canceled"),
   subscriptionEndDate |-> val(now)]

\* customer.subscription.deleted with a uid in the subscription's metadata.
AdminCancel(p) ==
  /\ pc[p] = "idle"
  /\ doc' = setMerge(doc, AdminCancelUpdate(clock))
  /\ pc' = [pc EXCEPT ![p] = "canceled"]
  /\ applied' = Append(applied, "canceled")
  /\ event' = [event EXCEPT ![p] = EvDeleted]
  /\ resp' = [resp EXCEPT ![p] = "received"]
  /\ io' = [io EXCEPT ![p].writes = 1]
  /\ UNCHANGED <<cachedToken, tokenCall, clock, data, user, doc0, overlap, variant>>

\* The same, the write rejecting: the handler logs it and answers.
AdminCancelFails(p) ==
  /\ pc[p] = "idle"
  /\ pc' = [pc EXCEPT ![p] = "error"]
  /\ event' = [event EXCEPT ![p] = EvDeleted]
  /\ resp' = [resp EXCEPT ![p] = "received"]
  /\ io' = [io EXCEPT ![p].writes = 1]
  /\ UNCHANGED <<cachedToken, tokenCall, doc, clock, data, user, doc0, applied, overlap, variant>>

\* invoice.payment_failed: whether the invoice names a subscription, and
\* whether that subscription's metadata holds a uid (ref).
EvPaymentFailed ==
  [sig |-> "valid", type |-> "invoice.payment_failed", ref |-> TRUE,
   lineItem |-> TRUE, reason |-> "none", subscription |-> TRUE]
EvPaymentFailedNoUid == [EvPaymentFailed EXCEPT !.ref = FALSE]
EvPaymentFailedNoSub ==
  [EvPaymentFailed EXCEPT !.ref = FALSE, !.subscription = FALSE]
PaymentFailedEvents ==
  {EvPaymentFailed, EvPaymentFailedNoUid, EvPaymentFailedNoSub}

\* Faulty variant of AdminPaymentFailedUpdate: access is withdrawn as on a
\* cancellation.
AdminPaymentFailedUpdateRevokes ==
  [credits |-> val(0),
   isUnlimited |-> val(FALSE),
   lastPaymentStatus |-> val("past_due")]
\* The update invoice.payment_failed writes; updatedAt is left out.
AdminPaymentFailedUpdate == [lastPaymentStatus |-> val("past_due")]

\* invoice.payment_failed when nothing throws: no subscription, answered at
\* once; no uid, nothing written; else the merge-set.
AdminPaymentFailed(p, e) ==
  /\ pc[p] = "idle"
  /\ IF e.subscription /\ e.ref
     THEN /\ doc' = setMerge(doc, AdminPaymentFailedUpdate)
          /\ pc' = [pc EXCEPT ![p] = "past_due"]
          /\ applied' = Append(applied, "past_due")
     ELSE /\ pc' = [pc EXCEPT ![p] = "ignored"]
          /\ UNCHANGED <<doc, applied>>
  /\ event' = [event EXCEPT ![p] = e]
  /\ resp' = [resp EXCEPT ![p] = "received"]
  /\ io' = [io EXCEPT ![p] = [lookups |-> IF e.subscription THEN 1 ELSE 0,
                              reads |-> 0,
                              writes |-> IF e.subscription /\ e.ref
                                         THEN 1 ELSE 0]]
  /\ UNCHANGED <<cachedToken, tokenCall, clock, data, user, doc0, overlap, variant>>

\* The same, subscriptions.retrieve or the set throwing: the handler logs
\* it and answers.
AdminPaymentFailedFails(p, e) ==
  /\ pc[p] = "idle"
  /\ e.subscription
  /\ pc' = [pc EXCEPT ![p] = "error"]
  /\ event' = [event EXCEPT ![p] = e]
  /\ resp' = [resp EXCEPT ![p] = "received"]
  /\ \E w \in {0} \cup (IF e.ref THEN {1} ELSE {}) :
       io' = [io EXCEPT ![p] = [lookups |-> 1, reads |-> 0, writes |-> w]]
  /\ UNCHANGED <<cachedToken, tokenCall, doc, clock, data, user, doc0, applied, overlap, variant>>

InitAdmin ==
  /\ InitCommon
  /\ variant = "part_002"
  /\ doc \in {Absent, SignedUpAdmin, RenewedAdmin, PaidAdmin}
  /\ doc0 = doc

NextAdmin ==
  \/ Tick
  \/ \E p \in Procs, g \in Grants : AdminGet(p, g)
  \/ \E p \in Procs, e \in AdminCheckouts : AdminGetCheckout(p, e)
  \/ \E p \in Procs, g \in Grants : AdminGetFails(p, g)
  \/ \E p \in Procs : AdminSet(p)
  \/ \E p \in Procs : AdminSetFails(p)
  \/ \E p \in Procs : AdminCancel(p)
  \/ \E p \in Procs : AdminCancelFails(p)
  \/ \E p \in Procs, e \in PaymentFailedEvents : AdminPaymentFailed(p, e)
  \/ \E p \in Procs, e \in PaymentFailedEvents : AdminPaymentFailedFails(p, e)

SpecAdmin == InitAdmin /\ [][NextAdmin]_vars

\* --------------------- src/unnamed/part_004: read, then increment and union
\* The Node program keys its payment records by sessionId, the Deno program
\* by invoiceId.
IncrCheck(d, g) ==
  /\ d.exists
  /\ LET payments == Prop(d.fields, "payments", << >>)
     IN  IF variant = "part_004_node"
         THEN \E i \in DOMAIN payments :
                "sessionId" \in DOMAIN payments[i] /\ payments[i].sessionId = g.invoiceId
         ELSE SomeInvoice(payments, g.invoiceId)

IncrUpdate(g, now) ==
  [credits |-> IF g.isUnlimited THEN val(UNLIMITED) ELSE increment(g.credits),
   isUnlimited |-> val(g.isUnlimited),
   plan |-> val(g.plan),
   lastPaymentStatus |-> val("active"),
   payments |-> arrayUnion(
     IF variant = "part_004_node"
     THEN [sessionId |-> g.invoiceId, amount |-> "subscription_payment",
           date |-> now, status |-> "completed"]
     ELSE [invoiceId |-> g.invoiceId, credits |-> g.credits, date |-> now])]

IncrGet(p, g) ==
  /\ pc[p] = "idle"
  /\ data' = [data EXCEPT ![p] = g]
  /\ pc' = [pc EXCEPT ![p] = IF IncrCheck(doc, g) THEN "duplicate" ELSE "write"]
  /\ overlap' = (overlap \/ InFlight(p))
  /\ UNCHANGED <<cachedToken, tokenCall, doc, clock, user, doc0, applied, variant, event, resp, io>>

IncrGetFails(p, g) ==
  /\ pc[p] = "idle"
  /\ pc' = [pc EXCEPT ![p] = "error"]
  /\ data' = [data EXCEPT ![p] = g]
  /\ UNCHANGED <<cachedToken, tokenCall, doc, clock, user, doc0, applied, overlap, variant, event, resp, io>>

IncrSet(p) ==
  /\ pc[p] = "write"
  /\ doc' = setMerge(doc, IncrUpdate(data[p], clock))
  /\ pc' = [pc EXCEPT ![p] = "applied"]
  /\ applied' = Append(applied, data[p].invoiceId)
  /\ UNCHANGED <<cachedToken, tokenCall, clock, data, user, doc0, overlap, variant, event, resp, io>>

IncrSetFails(p) ==
  /\ pc[p] = "write"
  /\ pc' = [pc EXCEPT ![p] = "error"]
  /\ UNCHANGED <<cachedToken, tokenCall, doc, clock, data, user, doc0, applied, overlap, variant, event, resp, io>>

InitIncr ==
  /\ InitCommon
  /\ variant \in {"part_004_node", "part_004_deno"}
  /\ doc \in {Absent, SignedUpAdmin}
  /\ doc0 = doc

NextIncr ==
  \/ Tick
  \/ \E p \in Procs, g \in Grants : IncrGet(p, g)
  \/ \E p \in Procs, g \in Grants : IncrGetFails(p, g)
  \/ \E p \in Procs : IncrSet(p)
  \/ \E p \in Procs : IncrSetFails(p)

SpecIncr == InitIncr /\ [][NextIncr]_vars

\* ------------------------ src/index.js, first program: one write, no read
IndexUpdate(g, now) ==
  [credits |-> IF g.isUnlimited THEN val(UNLIMITED) ELSE increment(g.credits),
   isUnlimited |-> val(g.isUnlimited),
   plan |-> val(g.plan),
   lastPaymentStatus |-> val("active"),
   payments |-> arrayUnion([invoiceId |-> g.invoiceId, date |-> now])]

\* The answer of the handler by how the processing ended: 400 from the
\* catch around constructEventAsync; the catch around the processing logs,
\* and the handler goes on to res.json({ received: true }).
indexResponse(outcome) ==
  IF outcome = "rejected" THEN "400" ELSE "received"

\* The handler of a verified grant event whose lookups and write succeed.
IndexSet(p, g) ==
  /\ pc[p] = "idle"
  /\ data' = [data EXCEPT ![p] = g]
  /\ doc' = setMerge(doc, IndexUpdate(g, clock))
  /\ pc' = [pc EXCEPT ![p] = "applied"]
  /\ applied' = Append(applied, g.invoiceId)
  /\ event' = [event EXCEPT ![p] = EventOf(g)]
  /\ resp' = [resp EXCEPT ![p] = indexResponse("applied")]
  /\ io' = [io EXCEPT ![p] = [lookups |-> lookupsBefore(EventOf(g)),
                              reads |-> 0, writes |-> 1]]
  /\ UNCHANGED <<cachedToken, tokenCall, clock, user, doc0, overlap, variant>>

\* The same, the write in updateFirestoreUser throwing.
IndexSetFails(p, g) ==
  /\ pc[p] = "idle"
  /\ data' = [data EXCEPT ![p] = g]
  /\ pc' = [pc EXCEPT ![p] = "error"]
  /\ event' = [event EXCEPT ![p] = EventOf(g)]
  /\ resp' = [resp EXCEPT ![p] = indexResponse("error")]
  /\ io' = [io EXCEPT ![p] = [lookups |-> lookupsBefore(EventOf(g)),
                              reads |-> 0, writes |-> 1]]
  /\ UNCHANGED <<cachedToken, tokenCall, doc, clock, user, doc0, applied, overlap, variant>>

\* The same, the session, subscription or product lookup throwing.
IndexLookupFails(p, e) ==
  /\ pc[p] = "idle"
  /\ e \in {EvCheckout, EvRenewal}
  /\ \E n \in 1..lookupsBefore(e) : io' = [io EXCEPT ![p].lookups = n]
  /\ pc' = [pc EXCEPT ![p] = "error"]
  /\ event' = [event EXCEPT ![p] = e]
  /\ resp' = [resp EXCEPT ![p] = indexResponse("error")]
  /\ UNCHANGED <<cachedToken, tokenCall, doc, clock, data, user, doc0, applied, overlap, variant>>

InitIndex ==
  /\ InitCommon
  /\ variant = "index_1"
  /\ doc \in {Absent, SignedUpAdmin}
  /\ doc0 = doc

NextIndex ==
  \/ Tick
  \/ \E p \in Procs, g \in Grants : IndexSet(p, g)
  \/ \E p \in Procs, g \in Grants : IndexSetFails(p, g)
  \/ \E p \in Procs, e \in Events : IndexLookupFails(p, e)

SpecIndex == InitIndex /\ [][NextIndex]_vars

\* ------------------ src/index.js, second program: read, check, merge-set
Index2Check(d, g) ==
  d.exists /\ SomeInvoice(Prop(d.fields, "payments", << >>), g.invoiceId)

\* The update updateFirestoreUser writes; updatedAt is left out.
Index2Update(d, g, now) ==
  [credits |-> val(IF g.isUnlimited THEN UNLIMITED
                   ELSE (IF d.exists THEN Prop(d.fields, "credits", 0) ELSE 0)
                        + g.credits),
   isUnlimited |-> val(g.isUnlimited),
   plan |-> val(g.plan),
   lastPaymentStatus |-> val("active"),
   payments |-> arrayUnion([invoiceId |-> g.invoiceId, date |-> now])]

\* The update customer.subscription.deleted writes; updatedAt is left out.
Index2CancelUpdate ==
  [credits |-> val(0), isUnlimited |-> val(FALSE), plan |-> val("expired")]

\* updateFirestoreUser up to its first return: userRef.get(), the check.
Index2Get(p, g) ==
  /\ pc[p] = "idle"
  /\ data' = [data EXCEPT ![p] = g]
  /\ IF Index2Check(doc, g)
     THEN /\ pc' = [pc EXCEPT ![p] = "duplicate"]
          /\ user' = user
          /\ resp' = [resp EXCEPT ![p] = "received"]
     ELSE /\ pc' = [pc EXCEPT ![p] = "write"]
          /\ user' = [user EXCEPT ![p] = doc]
          /\ resp' = resp
  /\ overlap' = (overlap \/ InFlight(p))
  /\ event' = [event EXCEPT ![p] = EventOf(g)]
  /\ io' = [io EXCEPT ![p] = [lookups |-> lookupsBefore(EventOf(g)),
                              reads |-> 1, writes |-> 0]]
  /\ UNCHANGED <<cachedToken, tokenCall, doc, clock, doc0, applied, variant>>

\* userRef.get() rejects: the handler's catch logs it and the handler answers.
Index2GetFails(p, g) ==
  /\ pc[p] = "idle"
  /\ pc' = [pc EXCEPT ![p] = "error"]
  /\ data' = [data EXCEPT ![p] = g]
  /\ event' = [event EXCEPT ![p] = EventOf(g)]
  /\ resp' = [resp EXCEPT ![p] = "received"]
  /\ io' = [io EXCEPT ![p] = [lookups |-> lookupsBefore(EventOf(g)),
                              reads |-> 1, writes |-> 0]]
  /\ UNCHANGED <<cachedToken, tokenCall, doc, clock, user, doc0, applied, overlap, variant>>

\* updateFirestoreUser from currentCredits to the end, and the answer.
Index2Set(p) ==
  /\ pc[p] = "write"
  /\ doc' = setMerge(doc, Index2Update(user[p], data[p], clock))
  /\ pc' = [pc EXCEPT ![p] = "applied"]
  /\ user' = [user EXCEPT ![p] = EmptyObj]
  /\ applied' = Append(applied, data[p].invoiceId)
  /\ resp' = [resp EXCEPT ![p] = "received"]
  /\ io' = [io EXCEPT ![p].writes = 1]
  /\ UNCHANGED <<cachedToken, tokenCall, clock, data, doc0, overlap, variant, event>>

Index2SetFails(p) ==
  /\ pc[p] = "write"
  /\ pc' = [pc EXCEPT ![p] = "error"]
  /\ user' = [user EXCEPT ![p] = EmptyObj]
  /\ resp' = [resp EXCEPT ![p] = "received"]
  /\ io' = [io EXCEPT ![p].writes = 1]
  /\ UNCHANGED <<cachedToken, tokenCall, doc, clock, data, doc0, applied, overlap, variant, event>>

\* customer.subscription.deleted with a uid in the subscription's metadata.
Index2Cancel(p) ==
  /\ pc[p] = "idle"
  /\ doc' = setMerge(doc, Index2CancelUpdate)
  /\ pc' = [pc EXCEPT ![p] = "canceled"]
  /\ applied' = Append(applied, "canceled")
  /\ event' = [event EXCEPT ![p] = EvDeleted]
  /\ resp' = [resp EXCEPT ![p] = "received"]
  /\ io' = [io EXCEPT ![p].writes = 1]
  /\ UNCHANGED <<cachedToken, tokenCall, clock, data, user, doc0, overlap, variant>>

\* The same, the write rejecting: nothing catches it, no answer is sent.
Index2CancelFails(p) ==
  /\ pc[p] = "idle"
  /\ pc' = [pc EXCEPT ![p] = "crashed"]
  /\ event' = [event EXCEPT ![p] = EvDeleted]
  /\ io' = [io EXCEPT ![p].writes = 1]
  /\ UNCHANGED <<cachedToken, tokenCall, doc, clock, data, user, doc0, applied, overlap, variant, resp>>

InitIndex2 ==
  /\ InitCommon
  /\ variant = "index_2"
  /\ doc \in {Absent, SignedUpAdmin}
  /\ doc0 = doc

NextIndex2 ==
  \/ Tick
  \/ \E p \in Procs, g \in Grants : Index2Get(p, g)
  \/ \E p \in Procs, g \in Grants : Index2GetFails(p, g)
  \/ \E p \in Procs : Index2Set(p)
  \/ \E p \in Procs : Index2SetFails(p)
  \/ \E p \in Procs : Index2Cancel(p)
  \/ \E p \in Procs : Index2CancelFails(p)

SpecIndex2 == InitIndex2 /\ [][NextIndex2]_vars

\* ------------------- src/unnamed/part_000: REST, no answer of the store checked
\* parseFields: a value is taken by the first of integerValue, stringValue
\* that is truthy, then booleanValue, then arrayValue; an empty string is
\* falsy, so the property is left out.
parseFields0(fields) ==
  LET taken(v) ==
        \/ "integerValue" \in DOMAIN v
        \/ "stringValue" \in DOMAIN v /\ v.stringValue # ""
        \/ "booleanValue" \in DOMAIN v
        \/ "arrayValue" \in DOMAIN v
      one(f, k) ==
        IF "integerValue" \in DOMAIN f[k] THEN f[k].integerValue
        ELSE IF "stringValue" \in DOMAIN f[k] THEN f[k].stringValue
        ELSE f[k].booleanValue
      parse(v) ==
        IF "integerValue" \in DOMAIN v THEN v.integerValue
        ELSE IF "stringValue" \in DOMAIN v /\ v.stringValue # "" THEN v.stringValue
        ELSE IF "booleanValue" \in DOMAIN v THEN v.booleanValue
        ELSE IF "values" \in DOMAIN v.arrayValue
             THEN [i \in DOMAIN v.arrayValue.values |->
                     LET f == v.arrayValue.values[i].mapValue.fields
                     IN  [k \in {x \in DOMAIN f : taken(f[x])} |-> one(f, k)]]
             ELSE << >>
  IN  [k \in {x \in DOMAIN fields : taken(fields[x])} |-> parse(fields[k])]

\* getUser's answer, || {} applied: {} for a response that is not OK or has
\* no fields, else the parsed fields.
getUser0(d, ok) ==
  IF ok /\ d.exists /\ DOMAIN d.fields # {} THEN parseFields0(d.fields)
  ELSE EmptyObj

\* The fields applyCredits hands to patchUser.
patchFields0(u, d) ==
  LET payments == Prop(u, "payments", << >>)
  IN  [credits |-> int(IF d.isUnlimited THEN UNLIMITED
                       ELSE Prop(u, "credits", 0) + d.credits),
       isUnlimited |-> bool(d.isUnlimited),
       plan |-> str(d.plan),
       lastPaymentStatus |-> str("active"),
       payments |-> arr([i \in DOMAIN payments |->
                           [invoiceId |-> str(payments[i].invoiceId)]]
                        \o << [invoiceId |-> str(d.invoiceId),
                               credits |-> int(d.credits)] >>)]

\* A document two earlier grants of this program left behind.
Renewed0 ==
  [exists |-> TRUE,
   fields |-> [credits |-> int(25),
               isUnlimited |-> bool(FALSE),
               plan |-> str("mini"),
               lastPaymentStatus |-> str("active"),
               payments |-> arr(<< [invoiceId |-> str("inv_8")],
                                   [invoiceId |-> str("inv_9"),
                                    credits |-> int(5)] >>)]]

\* The handler of a grant event up to applyCredits's first return; ok is
\* whether the store answered the GET with an OK response.
ApplyCredits0Read(p, g, ok) ==
  /\ pc[p] = "idle"
  /\ LET u == getUser0(doc, ok)
     IN  /\ data' = [data EXCEPT ![p] = g]
         /\ IF SomeInvoice(Prop(u, "payments", << >>), g.invoiceId)
            THEN /\ pc' = [pc EXCEPT ![p] = "duplicate"]
                 /\ user' = user
                 /\ resp' = [resp EXCEPT ![p] = "received"]
            ELSE /\ pc' = [pc EXCEPT ![p] = "write"]
                 /\ user' = [user EXCEPT ![p] = u]
                 /\ resp' = resp
  /\ overlap' = (overlap \/ InFlight(p))
  /\ event' = [event EXCEPT ![p] = EventOf(g)]
  /\ io' = [io EXCEPT ![p] = [lookups |-> lookupsBefore(EventOf(g)),
                              reads |-> 1, writes |-> 0, readOk |-> ok]]
  /\ UNCHANGED <<cachedToken, tokenCall, doc, clock, doc0, applied, variant>>

\* applyCredits from newCredits to the end, the store taking the PATCH.
ApplyCredits0Patch(p) ==
  /\ pc[p] = "write"
  /\ doc' = patchUser(doc, patchFields0(user[p], data[p]))
  /\ pc' = [pc EXCEPT ![p] = "applied"]
  /\ user' = [user EXCEPT ![p] = EmptyObj]
  /\ applied' = Append(applied, data[p].invoiceId)
  /\ resp' = [resp EXCEPT ![p] = "received"]
  /\ io' = [io EXCEPT ![p].writes = 1]
  /\ UNCHANGED <<cachedToken, tokenCall, clock, data, doc0, overlap, variant, event>>

\* The same, the store refusing the PATCH: patchUser does not look at the
\* response, applyCredits returns, the handler answers.
ApplyCredits0PatchRefused(p) ==
  /\ pc[p] = "write"
  /\ pc' = [pc EXCEPT ![p] = "unwritten"]
  /\ user' = [user EXCEPT ![p] = EmptyObj]
  /\ resp' = [resp EXCEPT ![p] = "received"]
  /\ io' = [io EXCEPT ![p].writes = 1]
  /\ UNCHANGED <<cachedToken, tokenCall, doc, clock, data, doc0, applied, overlap, variant, event>>

Init0 ==
  /\ InitCommon
  /\ variant = "part_000"
  /\ doc \in {Absent, SignedUp, Renewed0}
  /\ doc0 = doc

Next0 ==
  \/ \E p \in Procs, g \in Grants, ok \in BOOLEAN : ApplyCredits0Read(p, g, ok)
  \/ \E p \in Procs : ApplyCredits0Patch(p)
  \/ \E p \in Procs : ApplyCredits0PatchRefused(p)

Spec0 == Init0 /\ [][Next0]_vars

\* --------------------- src/unnamed/part_003: one merge-set, no read, no list
EvPaymentSucceeded == [EvRenewal EXCEPT !.type = "invoice.payment_succeeded"]

\* The updateData of grantCreditsToUser; subscriptionId, stripeCustomerId and
\* updatedAt are left out.
GrantUpdate(g) ==
  [credits |-> val(IF g.isUnlimited THEN UNLIMITED ELSE g.credits),
   isUnlimited |-> val(g.isUnlimited),
   plan |-> val(g.plan),
   lastPaymentStatus |-> val("active")]

\* The update customer.subscription.deleted writes; updatedAt is left out.
GrantCancelUpdate ==
  [credits |-> val(0), isUnlimited |-> val(FALSE), plan |-> val("expired"),
   lastPaymentStatus |-> val("canceled")]

\* The answer to an event whose grantCreditsToUser threw: 500 for
\* invoice.paid, the last line of the handler for invoice.payment_succeeded.
grantResponse(e, outcome) ==
  IF outcome = "error" /\ e.type = "invoice.paid" THEN "500" ELSE "received"

\* invoice.paid or invoice.payment_succeeded whose subscription has a uid.
GrantSet(p, e, g) ==
  /\ pc[p] = "idle"
  /\ data' = [data EXCEPT ![p] = g]
  /\ doc' = setMerge(doc, GrantUpdate(g))
  /\ pc' = [pc EXCEPT ![p] = "applied"]
  /\ applied' = Append(applied, g.invoiceId)
  /\ event' = [event EXCEPT ![p] = e]
  /\ resp' = [resp EXCEPT ![p] = grantResponse(e, "applied")]
  /\ io' = [io EXCEPT ![p] = [lookups |-> 2, reads |-> 0, writes |-> 1]]
  /\ UNCHANGED <<cachedToken, tokenCall, clock, user, doc0, overlap, variant>>

\* The same, a lookup (n = 1, 2) or the write (n = 3) throwing.
GrantFails(p, e, g) ==
  /\ pc[p] = "idle"
  /\ pc' = [pc EXCEPT ![p] = "error"]
  /\ event' = [event EXCEPT ![p] = e]
  /\ resp' = [resp EXCEPT ![p] = grantResponse(e, "error")]
  /\ \E n \in 1..3 :
       /\ io' = [io EXCEPT ![p] = [lookups |-> IF n = 3 THEN 2 ELSE n,
                                   reads |-> 0,
                                   writes |-> IF n = 3 THEN 1 ELSE 0]]
       /\ data' = [data EXCEPT ![p] = IF n = 3 THEN g ELSE NoData]
  /\ UNCHANGED <<cachedToken, tokenCall, doc, clock, user, doc0, applied, overlap, variant>>

\* customer.subscription.deleted with a uid in the subscription's metadata.
GrantCancel(p) ==
  /\ pc[p] = "idle"
  /\ doc' = setMerge(doc, GrantCancelUpdate)
  /\ pc' = [pc EXCEPT ![p] = "canceled"]
  /\ applied' = Append(applied, "canceled")
  /\ event' = [event EXCEPT ![p] = EvDeleted]
  /\ resp' = [resp EXCEPT ![p] = "received"]
  /\ io' = [io EXCEPT ![p].writes = 1]
  /\ UNCHANGED <<cachedToken, tokenCall, clock, data, user, doc0, overlap, variant>>

InitGrant ==
  /\ InitCommon
  /\ variant = "part_003"
  /\ doc \in {Absent, SignedUpAdmin, RenewedAdmin}
  /\ doc0 = doc

NextGrant ==
  \/ \E p \in Procs, e \in {EvRenewal, EvPaymentSucceeded}, g \in Grants :
       GrantSet(p, e, g)
  \/ \E p \in Procs, e \in {EvRenewal, EvPaymentSucceeded}, g \in Grants :
       GrantFails(p, e, g)
  \/ \E p \in Procs : GrantCancel(p)

SpecGrant == InitGrant /\ [][NextGrant]_vars

\* What an admin-SDK document holds.
AdminCredits(d) == Prop(d.fields, "credits", 0)

AdminInvoiceIds(d) ==
  LET ps == Prop(d.fields, "payments", << >>)
  IN  [i \in DOMAIN ps |->
         IF "invoiceId" \in DOMAIN ps[i] THEN ps[i].invoiceId ELSE ps[i].sessionId]

\* ------------------------------------------------- what the store holds
\* Read off the stored document itself, not through the code's parser.
StoredCredits(d) ==
  IF d.exists /\ "credits" \in DOMAIN d.fields
  THEN d.fields.credits.integerValue ELSE 0

StoredPayments(d) ==
  IF d.exists /\ "payments" \in DOMAIN d.fields
  THEN d.fields.payments.arrayValue.values ELSE << >>

\* The invoiceIds of the stored payments list, in its order.
StoredInvoiceIds(d) ==
  LET vs == StoredPayments(d)
  IN  [i \in DOMAIN vs |-> vs[i].mapValue.fields.invoiceId.stringValue]

\* A stored scalar field, by the wire key it is encoded under.
StoredField(d, k, wire, dflt) ==
  IF d.exists /\ k \in DOMAIN d.fields /\ wire \in DOMAIN d.fields[k]
  THEN d.fields[k][wire] ELSE dflt

Range(s) == { s[i] : i \in DOMAIN s }
Occurrences(s, x) == Cardinality({ i \in DOMAIN s : s[i] = x })

RECURSIVE SumOfSeq(_)
SumOfSeq(s) ==
  IF s = << >> THEN 0 ELSE GrantOf(Head(s)).credits + SumOfSeq(Tail(s))

RECURSIVE SumOfSet(_)
SumOfSet(S) ==
  IF S = {} THEN 0
  ELSE LET x == CHOOSE y \in S : TRUE
       IN  GrantOf(x).credits + SumOfSet(S \ {x})

Finished(p) == pc[p] \in {"applied", "duplicate"}
OnlyCalls(P) == \A r \in Procs \ P : pc[r] = "idle"
Quiet == \A p \in Procs : pc[p] # "write"

\* ------------------------------------------------------------- the claims

\* C1: a call of applyCredits that finds its invoiceId already in the stored
\* payments list (the first call's write has completed) ends at once and
\* leaves the stored document as it is: no store write.
C1_SecondCallWritesNothing ==
  [][\A p \in Procs :
        (/\ pc[p] = "idle"
         /\ pc'[p] # "idle"
         /\ data'[p].invoiceId \in Range(StoredInvoiceIds(doc)))
        => (pc'[p] \in {"duplicate", "error"} /\ doc' = doc)]_vars

C1_Witness ==
  \E p, q \in Procs :
    /\ pc[p] = "applied" /\ pc[q] = "duplicate"
    /\ data[p].invoiceId = data[q].invoiceId
    /\ doc0 = Renewed
    /\ StoredInvoiceIds(doc) = <<"inv_8", "inv_9", data[q].invoiceId>>

\* C2: when two applyCredits calls with the same invoiceId are the only
\* calls and both have ended, however their reads and writes interleaved,
\* the payments list has exactly one entry with that invoiceId and the
\* credits are the starting credits plus the grant's credits, once (the
\* sentinel for an unlimited grant).
C2_DuplicateOverlapOnce ==
  \A p, q \in Procs :
    (/\ p # q /\ Finished(p) /\ Finished(q) /\ OnlyCalls({p, q})
     /\ data[p].invoiceId = data[q].invoiceId)
    => /\ Occurrences(StoredInvoiceIds(doc), data[p].invoiceId) = 1
       /\ StoredCredits(doc) =
            IF data[p].isUnlimited THEN UNLIMITED
            ELSE StoredCredits(doc0) + data[p].credits

C2_Witness ==
  \E p, q \in Procs :
    /\ p # q /\ overlap /\ OnlyCalls({p, q})
    /\ pc[p] = "applied" /\ pc[q] = "applied"
    /\ data[p].invoiceId = data[q].invoiceId
    /\ ~data[p].isUnlimited /\ data[p].credits > 0

\* C3: when two applyCredits calls with different invoiceIds and finite
\* credits are the only calls and both were applied, however they
\* interleaved, the payments list has both invoiceIds and the credits are
\* the starting credits plus both deltas.
C3_DistinctOverlapBothApplied ==
  \A p, q \in Procs :
    (/\ p # q /\ pc[p] = "applied" /\ pc[q] = "applied" /\ OnlyCalls({p, q})
     /\ data[p].invoiceId # data[q].invoiceId
     /\ ~data[p].isUnlimited /\ ~data[q].isUnlimited)
    => /\ {data[p].invoiceId, data[q].invoiceId} \subseteq Range(StoredInvoiceIds(doc))
       /\ StoredCredits(doc) = StoredCredits(doc0) + data[p].credits + data[q].credits

\* C5: starting from an absent account, the stored credits are always the
\* sentinel or the sum of the credits of the grants whose invoiceId is in
\* the stored payments list.
C5_CreditsAreSumOrSentinel ==
  doc0 = Absent =>
    \/ StoredCredits(doc) = UNLIMITED
    \/ StoredCredits(doc) = SumOfSet(Range(StoredInvoiceIds(doc)))

\* C8: starting from an absent account, finite grants applied one after
\* another give credits equal to the sum of their credits and a payments
\* list of exactly their invoiceIds, in the order applied.
C8_SequentialSum ==
  (/\ doc0 = Absent /\ ~overlap
   /\ \A i \in DOMAIN applied : ~GrantOf(applied[i]).isUnlimited)
  => /\ StoredCredits(doc) = SumOfSeq(applied)
     /\ StoredInvoiceIds(doc) = applied

C8_Witness ==
  /\ doc0 = Absent /\ ~overlap /\ Quiet
  /\ applied = <<"inv_1", "inv_2">>
  /\ StoredCredits(doc) = 40
  /\ StoredInvoiceIds(doc) = <<"inv_1", "inv_2">>

\* C9: after an unlimited grant with an unseen invoiceId is written, the
\* stored credits are the sentinel, whatever the balance before and
\* whatever the grant's own credits.
C9_UnlimitedWritesSentinel ==
  (applied # << >> /\ GrantOf(applied[Len(applied)]).isUnlimited)
  => StoredCredits(doc) = UNLIMITED

C9_Witness ==
  /\ applied = <<"inv_1", "inv_5">> /\ ~overlap
  /\ doc0 = SignedUp
  /\ StoredCredits(doc) = UNLIMITED

\* C10: a finite grant written on an account stored as unlimited (the
\* write before it, with no other delivery in between, was an unlimited
\* grant) leaves the stored credits at the sentinel.
C10_FiniteGrantKeepsSentinel ==
  (/\ ~overlap /\ Len(applied) >= 2
   /\ GrantOf(applied[Len(applied) - 1]).isUnlimited
   /\ ~GrantOf(applied[Len(applied)]).isUnlimited)
  => StoredCredits(doc) = UNLIMITED

\* C11: from any starting account, two finite grants with distinct unseen
\* invoiceIds applied one after the other leave the starting credits plus
\* both grants' credits, in whichever order they were applied.
C11_TwoGrantsCommute ==
  (/\ ~overlap /\ Len(applied) = 2
   /\ applied[1] # applied[2]
   /\ \A i \in DOMAIN applied : ~GrantOf(applied[i]).isUnlimited)
  => StoredCredits(doc) = StoredCredits(doc0)
                          + GrantOf(applied[1]).credits
                          + GrantOf(applied[2]).credits

C11_Witness ==
  /\ doc0 = SignedUp /\ ~overlap /\ Quiet
  /\ applied = <<"inv_4", "inv_1">>
  /\ StoredCredits(doc) = 28

\* C12: after a write of applyCredits the stored isUnlimited and plan are
\* those of the grant written last, in both directions (finite after
\* unlimited, unlimited after finite), and lastPaymentStatus is "active".
C12_LatestGrantWins ==
  applied # << >>
  => LET g == GrantOf(applied[Len(applied)])
     IN  /\ StoredField(doc, "isUnlimited", "booleanValue", "none") = g.isUnlimited
         /\ StoredField(doc, "plan", "stringValue", "") = g.plan
         /\ StoredField(doc, "lastPaymentStatus", "stringValue", "") = "active"

C12_Witness ==
  /\ applied = <<"inv_3", "inv_1">> /\ ~overlap
  /\ StoredField(doc, "isUnlimited", "booleanValue", "none") = FALSE
  /\ StoredField(doc, "plan", "stringValue", "") = "basic"

\* C13: a verified checkout.session.completed without client_reference_id,
\* and a verified invoice.paid renewal whose subscription was looked up and
\* has no uid in its metadata, are answered {received: true} with no store
\* read and no store write; the checkout needs no lookup at all.
C13_NoReferenceIsAcknowledged ==
  \A p \in Procs :
    (/\ pc[p] # "idle"
     /\ event[p] \in {EvCheckoutNoRef, EvRenewalNoRef})
    => /\ io[p].reads = 0 /\ io[p].writes = 0
       /\ data[p] = NoData
       /\ \/ pc[p] = "ignored" /\ resp[p] = "received"
          \/ pc[p] = "error" /\ event[p] = EvRenewalNoRef /\ io[p].lookups = 1

C13_Witness ==
  \E p, q \in Procs :
    /\ event[p] = EvCheckoutNoRef /\ resp[p] = "received" /\ io[p] = NoIo
    /\ event[q] = EvRenewalNoRef /\ resp[q] = "received"
    /\ io[q] = [lookups |-> 1, reads |-> 0, writes |-> 0]
    /\ doc = doc0 /\ applied = << >>

\* C14: when a lookup, the store read or the store write fails while a
\* verified event is processed, the request is answered 500 and that step
\* leaves the stored document as it is; a later delivery of an invoiceId
\* whose processing failed and that is not stored is not taken for a
\* duplicate.
C14_FailureIs500AndWritesNothing ==
  [][\A p \in Procs :
        /\ (pc[p] # "error" /\ pc'[p] = "error")
           => (resp'[p] = "500" /\ doc' = doc)
        /\ (/\ pc[p] = "idle" /\ pc'[p] # "idle" /\ data'[p] # NoData
            /\ data'[p].invoiceId \notin Range(StoredInvoiceIds(doc))
            /\ \E q \in Procs \ {p} :
                 pc[q] = "error" /\ data[q] = data'[p])
           => pc'[p] \in {"write", "error"}]_vars

C14_Witness ==
  \E p, q \in Procs :
    /\ pc[p] = "error" /\ resp[p] = "500" /\ io[p].writes = 1
    /\ pc[q] = "applied" /\ resp[q] = "received"
    /\ data[p] = data[q] /\ data[p].invoiceId = "inv_1"
    /\ doc0 = SignedUp /\ ~overlap
    /\ applied = <<"inv_1">>
    /\ StoredCredits(doc) = 23

\* C16: a request without the stripe-signature header, or whose signature
\* does not verify, is answered 400 in one step, with no provider lookup, no
\* store read and no store write.
C16_BadSignatureIs400 ==
  \A p \in Procs :
    (pc[p] # "idle" /\ event[p].sig # "valid")
    => /\ pc[p] = "rejected" /\ resp[p] = "400"
       /\ io[p] = NoIo /\ data[p] = NoData

C16_Witness ==
  \E p, q \in Procs :
    /\ event[p] = EvNoSignature /\ resp[p] = "400"
    /\ event[q] = EvBadSignature /\ resp[q] = "400"
    /\ doc = doc0 /\ applied = << >>

\* C17: the write of applyCredits takes effect only when the stored account
\* is what the call read.
C17_WriteOnlyIfUnchanged ==
  [][\A p \in Procs :
        (pc[p] = "write" /\ pc'[p] = "applied") => getUser(doc) = user[p]]_vars

\* C18: once every grant event submitted has a delivery that was answered
\* {received: true} and none is being processed (the provider has nothing
\* left to deliver again), the stored payments list holds every invoiceId
\* submitted.
Submitted == { data[p].invoiceId : p \in { q \in Procs : data[q] # NoData } }
NothingToRedeliver ==
  \A p \in Procs :
    /\ pc[p] # "write"
    /\ resp[p] = "500"
       => /\ data[p] # NoData
          /\ \E q \in Procs : data[q] = data[p] /\ resp[q] = "received"
C18_AcknowledgedAreRecorded ==
  NothingToRedeliver => Submitted \subseteq Range(StoredInvoiceIds(doc))

\* C15: in the first program of index.js a delivery whose lookup or store
\* write failed is not answered {received: true}.
C15_IndexFailureNotAcknowledged ==
  \A p \in Procs : pc[p] = "error" => resp[p] # "received"

\* C19: in the second program of part_002 a customer.subscription.deleted
\* with a uid leaves credits 0, isUnlimited false, plan "expired" and
\* lastPaymentStatus "canceled" whatever was stored before, and the payments
\* list as it was; a second handling therefore changes none of them.
C19_CancelResetsAccount ==
  [][\A p \in Procs :
        (pc[p] = "idle" /\ pc'[p] = "canceled")
        => /\ doc'.exists
           /\ Prop(doc'.fields, "credits", "none") = 0
           /\ Prop(doc'.fields, "isUnlimited", "none") = FALSE
           /\ Prop(doc'.fields, "plan", "none") = "expired"
           /\ Prop(doc'.fields, "lastPaymentStatus", "none") = "canceled"
           /\ Prop(doc'.fields, "payments", << >>)
              = Prop(doc.fields, "payments", << >>)
           /\ io'[p].reads = 0]_vars

C19_Witness ==
  /\ doc0 = RenewedAdmin
  /\ applied = <<"canceled", "canceled">>
  /\ \A p \in Procs : pc[p] = "canceled"
  /\ AdminCredits(doc) = 0
  /\ Prop(doc.fields, "lastPaymentStatus", "none") = "canceled"
  /\ AdminInvoiceIds(doc) = <<"inv_8", "inv_9">>

\* C20: in the second program of index.js, after a customer.subscription.deleted
\* was handled for an account that a grant was written to before, the stored
\* lastPaymentStatus is "canceled".
C20_CancelSetsStatus ==
  (/\ Len(applied) >= 2
   /\ applied[Len(applied)] = "canceled"
   /\ applied[Len(applied) - 1] # "canceled")
  => Prop(doc.fields, "lastPaymentStatus", "none") = "canceled"

\* C21: when no delivery read while another was between its read and its
\* write, a step leaves every stored payments record as it was: same place
\* in the list, same invoiceId, same credits, same date.
C21_StoredRecordsUnchanged ==
  [][~overlap'
     => \A i \in DOMAIN StoredPayments(doc) :
          /\ i \in DOMAIN StoredPayments(doc')
          /\ StoredPayments(doc')[i] = StoredPayments(doc)[i]]_vars

\* C22: an invoiceId that is in the stored payments list stays in it.
C22_PaymentsNeverLoseAnEntry ==
  [][Range(StoredInvoiceIds(doc)) \subseteq Range(StoredInvoiceIds(doc'))]_vars

\* C23: in part_003, after one grant of a finite plan with credits d was
\* written to an account whose stored credits were c, the stored credits
\* are c + d.
C23_RenewalAddsToBalance ==
  (/\ Len(applied) = 1 /\ applied[1] # "canceled"
   /\ ~GrantOf(applied[1]).isUnlimited)
  => AdminCredits(doc) = AdminCredits(doc0) + GrantOf(applied[1]).credits

\* C24: the credits passed to applyCredits are a number: 0 when
\* product.metadata.credits is missing, empty or not numeric, else its value.
C24_CreditsAreANumber ==
  \A p \in Procs :
    data[p] # NoData
    => /\ data[p].credits # NaN
       /\ event[p].product.credits \in
            {Missing, Some(""), Some("abc")} => data[p].credits = 0

\* C25: the grant is unlimited exactly when product.metadata.isUnlimited is
\* the string "true", and the stored flag after the write is the same.
C25_UnlimitedOnlyForTrue ==
  /\ \A p \in Procs :
       data[p] # NoData
       => (data[p].isUnlimited <=> event[p].product.isUnlimited = Some("true"))
  /\ \A p \in Procs :
       (pc[p] = "applied" /\ applied[Len(applied)] = data[p].invoiceId
        /\ \A q \in Procs \ {p} : pc[q] # "applied")
       => StoredField(doc, "isUnlimited", "booleanValue", "none")
          = (event[p].product.isUnlimited = Some("true"))

C25_Witness ==
  \E p, q \in Procs :
    /\ pc[p] = "applied" /\ event[p].product.isUnlimited = Some("true")
    /\ StoredField(doc, "isUnlimited", "booleanValue", "none") = TRUE
    /\ pc[q] = "write" /\ event[q].product.isUnlimited = Some("1")
    /\ ~data[q].isUnlimited

\* C26: the invoiceId of a checkout grant is the session's invoice id when
\* it has one, else the session id; two checkout sessions without an invoice
\* and with different ids, one handled after the other, are both written.
C26_KeyIsInvoiceElseSession ==
  /\ \A p \in Procs :
       (data[p] # NoData /\ event[p].type = "checkout.session.completed")
       => data[p].invoiceId = IF event[p].invoice = Missing
                              THEN event[p].id ELSE event[p].invoice[1]
  /\ \A p, q \in Procs :
       (/\ p # q /\ ~overlap /\ OnlyCalls({p, q})
        /\ event[p].type = "checkout.session.completed"
        /\ event[q].type = "checkout.session.completed"
        /\ event[p].invoice = Missing /\ event[q].invoice = Missing
        /\ event[p].id # event[q].id
        /\ pc[p] = "applied")
       => pc[q] # "duplicate"

C26_Witness ==
  \E p, q \in Procs :
    /\ event[p] = CheckoutEvent("cs_1", Missing, BasicProduct)
    /\ event[q] = CheckoutEvent("cs_2", Missing, BasicProduct)
    /\ ~overlap /\ doc0 = SignedUp
    /\ applied = <<"cs_1", "cs_2">>
    /\ StoredInvoiceIds(doc) = <<"cs_1", "cs_2">>
    /\ StoredCredits(doc) = 43

\* C27: an invoice.paid whose billing_reason is not "subscription_cycle" is
\* answered {received: true} with no lookup, no store read and no store
\* write; an invoice.paid that got to applyCredits is a renewal whose
\* subscription was looked up and has a uid.
C27_OnlyRenewalsAreGranted ==
  \A p \in Procs :
    (pc[p] # "idle" /\ event[p].type = "invoice.paid"
     /\ event[p].sig = "valid")
    => /\ event[p].reason # "subscription_cycle"
          => (/\ pc[p] = "ignored" /\ resp[p] = "received"
              /\ io[p] = NoIo /\ data[p] = NoData)
       /\ (io[p].reads > 0 \/ data[p] # NoData)
          => (/\ event[p].reason = "subscription_cycle" /\ event[p].ref
              /\ io[p].lookups = 2)

C27_Witness ==
  \E p, q \in Procs :
    /\ event[p] = EvFirstInvoice /\ pc[p] = "ignored"
    /\ resp[p] = "received" /\ io[p] = NoIo
    /\ event[q] = EvRenewal /\ pc[q] = "applied" /\ io[q].lookups = 2
    /\ applied = <<data[q].invoiceId>>

\* C28: when the deliveries handled so far, one after the other, are those
\* of one purchase (checkout.session.completed carrying inv_1, invoice.paid
\* with billing_reason "subscription_create"), in any order and number, and
\* a checkout delivery has ended, the credits are the starting credits plus
\* the plan's credits once and the payments list has inv_1 once.
C28_PurchaseCreditedOnce ==
  (/\ ~overlap
   /\ \A p \in Procs :
        \/ pc[p] = "idle"
        \/ event[p] = EvFirstInvoice
        \/ (event[p] = EvCheckout /\ Finished(p)
            /\ data[p] = GrantOf("inv_1"))
   /\ \E p \in Procs : event[p] = EvCheckout)
  => /\ StoredCredits(doc) = StoredCredits(doc0) + GrantOf("inv_1").credits
     /\ Occurrences(StoredInvoiceIds(doc), "inv_1") = 1
     /\ Len(StoredInvoiceIds(doc)) = Len(StoredInvoiceIds(doc0)) + 1

C28_Witness ==
  \E p, q \in Procs :
    /\ event[p] = EvCheckout /\ pc[p] = "applied"
    /\ data[p] = GrantOf("inv_1")
    /\ event[q] = EvFirstInvoice /\ pc[q] = "ignored"
    /\ ~overlap /\ doc0 = Renewed
    /\ StoredCredits(doc) = 45
    /\ StoredInvoiceIds(doc) = <<"inv_8", "inv_9", "inv_1">>

\* C29: in the second program of part_002, of two checkout sessions without
\* an invoice and with different session ids, handled one after the other
\* and alone, the second is not taken for a duplicate of the first.
C29_NullInvoiceNotADuplicate ==
  \A p, q \in Procs :
    (/\ p # q /\ ~overlap /\ OnlyCalls({p, q})
     /\ event[p] \in AdminCheckouts /\ event[q] \in AdminCheckouts
     /\ event[p].id # event[q].id
     /\ pc[p] = "applied")
    => pc[q] # "duplicate"

\* C30: in part_000, when the only delivery so far wrote after a read of
\* the account that the store did not answer OK, either the stored document
\* is the one the run started from or its credits and payments are those
\* the grant gives on the stored account.
C30_FailedReadNeverOverwrites ==
  \A p \in Procs :
    (pc[p] = "applied" /\ OnlyCalls({p}) /\ ~io[p].readOk)
    => \/ doc = doc0
       \/ /\ StoredCredits(doc)
             = IF data[p].isUnlimited THEN UNLIMITED
               ELSE StoredCredits(doc0) + data[p].credits
          /\ StoredInvoiceIds(doc)
             = Append(StoredInvoiceIds(doc0), data[p].invoiceId)

\* C31: in part_000, when the only delivery so far was answered
\* {received: true} after a read the store answered OK that did not find
\* the invoiceId in the payments list, the write was taken by the store and
\* the invoiceId is in the stored payments list.
C31_AcknowledgedGrantIsRecorded ==
  \A p \in Procs :
    (/\ resp[p] = "received" /\ pc[p] \in {"applied", "unwritten"}
     /\ OnlyCalls({p}) /\ io[p].readOk)
    => /\ pc[p] = "applied"
       /\ data[p].invoiceId \in Range(StoredInvoiceIds(doc))

\* C32: in the second program of part_002, when a delivery of a grant event
\* starts after a cancellation was written and the event's invoiceId was
\* written to the account before that cancellation (or was in the account's
\* payments from the start), the delivery ends as a duplicate (or at a failed
\* read) and the stored document stays as it is: after a cancellation alone,
\* credits 0, plan "expired", lastPaymentStatus "canceled".
AppliedBeforeCancel(inv) ==
  \E k \in DOMAIN applied :
    /\ applied[k] = "canceled"
    /\ \/ inv \in Range(AdminInvoiceIds(doc0))
       \/ \E j \in 1..(k - 1) : applied[j] = inv

C32_RedeliveryAfterCancelChangesNothing ==
  [][\A p \in Procs :
        (/\ pc[p] = "idle" /\ pc'[p] \in {"write", "duplicate", "error"}
         /\ data'[p] # NoData
         /\ AppliedBeforeCancel(data'[p].invoiceId))
        => /\ pc'[p] \in {"duplicate", "error"}
           /\ doc' = doc
           /\ (applied[Len(applied)] = "canceled"
               => /\ AdminCredits(doc') = 0
                  /\ Prop(doc'.fields, "plan", "none") = "expired"
                  /\ Prop(doc'.fields, "lastPaymentStatus", "none") = "canceled")]_vars

C32_Witness ==
  /\ doc0 = PaidAdmin
  /\ applied = <<"canceled">>
  /\ \E p, q \in Procs :
       /\ pc[p] = "canceled"
       /\ pc[q] = "duplicate" /\ data[q] = GrantOf("inv_1")
  /\ AdminCredits(doc) = 0
  /\ Prop(doc.fields, "plan", "none") = "expired"
  /\ Prop(doc.fields, "lastPaymentStatus", "none") = "canceled"
  /\ AdminInvoiceIds(doc) = <<"inv_1">>

\* C33: in server.ts, once applyCredits has written the account, whatever
\* the grants and their interleaving, a stored isUnlimited of true comes
\* with stored credits of 999999.
C33_UnlimitedMeansSentinel ==
  (applied # << >> /\ StoredField(doc, "isUnlimited", "booleanValue", FALSE))
  => StoredCredits(doc) = UNLIMITED

C33_Witness ==
  /\ overlap /\ Len(applied) = 2
  /\ ~GrantOf(applied[1]).isUnlimited
  /\ GrantOf(applied[2]).isUnlimited
  /\ StoredField(doc, "isUnlimited", "booleanValue", FALSE)
  /\ StoredCredits(doc) = UNLIMITED

\* C34: in server.ts, a delivery of a verified event the handler hands to
\* applyCredits is answered {received: true} only when applyCredits has
\* ended: the account was read and either the invoiceId was found stored or
\* the write was sent and taken; while the write is pending the delivery has
\* no answer.
C34_AnswerAfterLedgerUpdate ==
  \A p \in Procs :
    /\ (/\ event[p] # NoEvent /\ webhookRoute(event[p]) = "grant"
        /\ resp[p] = "received")
       => /\ pc[p] \in {"applied", "duplicate"}
          /\ io[p].reads = 1
          /\ pc[p] = "applied"
             => io[p].writes = 1 /\ data[p].invoiceId \in Range(applied)
          /\ pc[p] = "duplicate" => io[p].writes = 0
    /\ pc[p] = "write" => resp[p] # "received"

C34_Witness ==
  \E p, q \in Procs :
    /\ pc[p] = "applied" /\ resp[p] = "received" /\ io[p].writes = 1
    /\ pc[q] = "write" /\ resp[q] # "received"
    /\ webhookRoute(event[q]) = "grant"
    /\ data[p].invoiceId \in Range(StoredInvoiceIds(doc))

\* C35: in the second program of part_002, a handling of
\* invoice.payment_failed that nothing stops, for an invoice whose
\* subscription has a uid, leaves lastPaymentStatus "past_due" and credits,
\* isUnlimited, plan and the payments list as stored; for an invoice without
\* a subscription, or whose subscription has no uid, the stored document is
\* left as it is, no write is sent and the answer is {received: true}.
C35_PaymentFailedOnlySetsStatus ==
  [][\A p \in Procs :
        (pc[p] = "idle" /\ event'[p] \in PaymentFailedEvents)
        => /\ (event'[p] = EvPaymentFailed /\ pc'[p] # "error")
              => /\ pc'[p] = "past_due"
                 /\ doc'.exists
                 /\ Prop(doc'.fields, "lastPaymentStatus", "none") = "past_due"
                 /\ \A k \in {"credits", "isUnlimited", "plan", "payments"} :
                      /\ k \in DOMAIN doc'.fields <=> k \in DOMAIN doc.fields
                      /\ k \in DOMAIN doc.fields
                         => doc'.fields[k] = doc.fields[k]
           /\ event'[p] # EvPaymentFailed
              => /\ doc' = doc
                 /\ io'[p].writes = 0
                 /\ resp'[p] = "received"]_vars

C35_Witness ==
  /\ doc0 = PaidAdmin
  /\ applied = <<"past_due">>
  /\ \E p, q \in Procs :
       /\ pc[p] = "past_due" /\ event[p] = EvPaymentFailed
       /\ pc[q] = "ignored" /\ event[q] = EvPaymentFailedNoUid
       /\ io[q].writes = 0 /\ resp[q] = "received"
  /\ Prop(doc.fields, "lastPaymentStatus", "none") = "past_due"
  /\ AdminCredits(doc) = 23
  /\ Prop(doc.fields, "plan", "none") = "basic"
  /\ AdminInvoiceIds(doc) = <<"inv_1">>

\* C36: in server.ts, a call of getAccessToken returns the cached token, and
\* starts no token request, exactly when there is a cached token whose
\* expiresAt is later than the time of the call; otherwise it requests one.
\* A token response is cached with expiresAt = time of the response +
\* expires_in - 60 s; a failed request throws and leaves the cache as it was.
\* A token returned from the cache is returned before its expiresAt.
C36_CacheServesOnlyLiveTokens ==
  [][\A p \in Procs :
        /\ (pc[p] = "idle" /\ tokenCall'[p] # tokenCall[p])
           => IF cachedToken # NoToken /\ cachedToken.expiresAt > clock
              THEN /\ pc'[p] = "idle"
                   /\ tokenCall'[p].from = "cache"
                   /\ tokenCall'[p].token = cachedToken.token
                   /\ tokenCall'[p].at < tokenCall'[p].expiresAt
                   /\ cachedToken' = cachedToken
              ELSE /\ pc'[p] = "token"
                   /\ cachedToken' = cachedToken
        /\ (pc[p] = "token" /\ pc'[p] = "idle")
           => IF tokenCall'[p].from = "endpoint"
              THEN /\ cachedToken'.token = tokenCall'[p].token
                   /\ cachedToken'.expiresAt + Margin
                      = clock + tokenCall'[p].expiresIn
              ELSE /\ tokenCall'[p].from = "thrown"
                   /\ cachedToken' = cachedToken]_vars

C36_Witness ==
  \E p, q \in Procs :
    /\ p # q
    /\ tokenCall[p].from = "cache" /\ tokenCall[p].token.by = q
    /\ tokenCall[p].at > tokenCall[p].token.at
    /\ tokenCall[q].from = "thrown" /\ tokenCall[q].at >= cachedToken.expiresAt
    /\ cachedToken.token.by = q

\* C4: in the admin-SDK program of part_002 the payments list never holds
\* two records with the same invoiceId.
C4_OneRecordPerInvoice ==
  \A inv \in InvoiceIds : Occurrences(AdminInvoiceIds(doc), inv) <= 1

\* C6: in the increment programs of part_004, when two calls with the same
\* invoiceId and a finite grant are the only calls and both have ended, the
\* credits are the starting credits plus the grant's credits, once.
C6_IncrementOnce ==
  \A p, q \in Procs :
    (/\ p # q /\ Finished(p) /\ Finished(q) /\ OnlyCalls({p, q})
     /\ data[p].invoiceId = data[q].invoiceId
     /\ ~data[p].isUnlimited)
    => AdminCredits(doc) = AdminCredits(doc0) + data[p].credits

\* C7: in the first program of index.js, after the same event was delivered
\* twice, one delivery after the other, the credits are what they were
\* after the first delivery: the starting credits plus the grant's, once.
C7_RedeliveryNoDoubleCredit ==
  \A p, q \in Procs :
    (/\ p # q /\ pc[p] = "applied" /\ pc[q] = "applied" /\ OnlyCalls({p, q})
     /\ data[p].invoiceId = data[q].invoiceId
     /\ ~data[p].isUnlimited)
    => AdminCredits(doc) = AdminCredits(doc0) + data[p].credits

====
